---- MODULE Spec2Model ----
(***************************************************************************)
(* FourCastNetv2 adapter (src/ai_models_fourcastnetv2/model.py).           *)
(*                                                                         *)
(* One call of FourCastNetv2.run is modelled as a sequential state machine *)
(* whose program counter pc walks through the statements of run and of the *)
(* methods it calls (load_statistics, normalise, load_model).              *)
(*                                                                         *)
(* Abstractions: a field on the 721 x 1440 grid is one integer, so a       *)
(* tensor of shape [1, 73, 721, 1440] is a function 0..72 -> Int; float32  *)
(* arithmetic is integer arithmetic; the external network                  *)
(* nvs.FourierNeuralOperatorNet is a deterministic map on tensors.  What  *)
(* run reads from its environment is drawn where the code reads it: the    *)
(* host's attributes in Init, the network's expected keys and the          *)
(* checkpoint file in load_model, the logger's level in the first loop     *)
(* iteration.  Strings that the code slices (checkpoint keys) are tuples   *)
(* of characters.                                                          *)
(***************************************************************************)
EXTENDS Integers, Sequences, FiniteSets, TLC

\* ------------------------------------------------------------------ bounds
MaxLead == 12        \* lead_time ranges over 0..MaxLead (hours)
MaxKeys == 2         \* number of entries of checkpoint["model_state"]
FileChannels == 74   \* channels stored in global_means.npy / global_stds.npy
ValMod == 5          \* the network's outputs lie in 0..ValMod-1

\* ------------------------------------------------- class attributes (l.29-193)
param_sfc == <<"10u", "10v", "2t", "sp", "msl", "tcwv", "100u", "100v">>

param_sfc_xr == <<"u10", "v10", "u100", "v100", "t2m", "sp", "msl", "tcwv">>

param_level_pl ==
  << <<"u", "v", "z", "t", "r">>,
     <<1000, 925, 850, 700, 600, 500, 400, 300, 250, 200, 150, 100, 50>> >>

ordering_cml ==
  << "10u", "10v", "100u", "100v", "2t", "sp", "msl", "tcwv", "u50",
     "u100", "u150", "u200", "u250", "u300", "u400", "u500", "u600",
     "u700", "u850", "u925", "u1000", "v50", "v100", "v150", "v200",
     "v250", "v300", "v400", "v500", "v600", "v700", "v850", "v925",
     "v1000", "z50", "z100", "z150", "z200", "z250", "z300", "z400",
     "z500", "z600", "z700", "z850", "z925", "z1000", "t50", "t100",
     "t150", "t200", "t250", "t300", "t400", "t500", "t600", "t700",
     "t850", "t925", "t1000", "r50", "r100", "r150", "r200", "r250",
     "r300", "r400", "r500", "r600", "r700", "r850", "r925", "r1000" >>

ordering_xr ==
  << "u10", "v10", "u100", "v100", "t2m", "sp", "msl", "tcwv", "u50",
     "u100", "u150", "u200", "u250", "u300", "u400", "u500", "u600",
     "u700", "u850", "u925", "u1000", "v50", "v100", "v150", "v200",
     "v250", "v300", "v400", "v500", "v600", "v700", "v850", "v925",
     "v1000", "z50", "z100", "z150", "z200", "z250", "z300", "z400",
     "z500", "z600", "z700", "z850", "z925", "z1000", "t50", "t100",
     "t150", "t200", "t250", "t300", "t400", "t500", "t600", "t700",
     "t850", "t925", "t1000", "r50", "r100", "r150", "r200", "r250",
     "r300", "r400", "r500", "r600", "r700", "r850", "r925", "r1000" >>

\* attributes set in __init__
hour_steps == 6

backbone_channels == Len(ordering_cml)

\* every attribute name an instance of the class resolves: the class body,
\* __init__, load_statistics, and the hooks inherited from the host Model
ClassAttrs ==
  { "download_url", "download_files", "area", "grid", "param_sfc",
    "param_sfc_xr", "param_level_pl", "ordering_cml", "ordering_xr",
    "expver", "n_lat", "n_lon", "hour_steps", "backbone_channels",
    "checkpoint_path", "means", "stds", "all_fields", "lead_time",
    "assets", "device", "stepper", "write" }

\* ---------------------------------------------------------------- helpers
\* Python indexing seq[i], i counted from 0
At(seq, i) == seq[i + 1]

Chan == 0 .. (backbone_channels - 1)

\* seq[a:] for a sequence
Slice(seq, a) == IF a >= Len(seq) THEN << >> ELSE SubSeq(seq, a + 1, Len(seq))

\* seq[::-1]
Reversed(seq) == [n \in 1 .. Len(seq) |-> seq[Len(seq) + 1 - n]]

Range(seq) == { seq[n] : n \in 1 .. Len(seq) }

\* np.arange(start, stop, step) for step > 0
RECURSIVE Arange(_, _, _)
Arange(start, stop, step) ==
  IF start >= stop THEN << >> ELSE <<start>> \o Arange(start + step, stop, step)

\* a sequence as an array indexed from 0
Array(seq) == [c \in 0 .. (Len(seq) - 1) |-> seq[c + 1]]

\* p[0], p[1:] of a pressure-level channel name such as "u50": the
\* one-character parameter and the decimal level that spell the name
SplitName(p) ==
  CHOOSE pl \in Range(param_level_pl[1]) \X Range(param_level_pl[2]) :
    pl[1] \o ToString(pl[2]) = p

\* ----------------------------------------------------- checkpoint keys
K_module_norm_weight == <<"m","o","d","u","l","e",".","n","o","r","m",".","w","e","i","g","h","t">>
K_module_norm_bias == <<"m","o","d","u","l","e",".","n","o","r","m",".","b","i","a","s">>
K_module_ged == <<"m","o","d","u","l","e",".","g","e","d">>
K_module_fc_w == <<"m","o","d","u","l","e",".","f","c",".","w">>
K_fc_w == <<"f","c",".","w">>
K_models_fc_w == <<"m","o","d","e","l","s",".","f","c",".","w">>
K_norm_weight == <<"n","o","r","m",".","w","e","i","g","h","t">>
K_norm_bias == <<"n","o","r","m",".","b","i","a","s">>
K_ged == <<"g","e","d">>

KeyUniverse ==
  { K_module_norm_weight, K_module_norm_bias, K_module_ged,
    K_module_fc_w, K_fc_w, K_models_fc_w }

drop_vars == { K_module_norm_weight, K_module_norm_bias }

\* k[7:]
Strip(k) == Slice(k, 7)

\* ------------------------------------------------------------------ state
VARIABLES
  lead_time,        \* self.lead_time, hours (host input)
  isList,           \* isinstance(self.all_fields, list)
  debug,            \* LOG.isEnabledFor(logging.DEBUG), observed at l.314
  hostSeed,         \* which host input snapshot self.all_fields holds
  t0,               \* self.all_fields[1].time.values[0], hours
  checkpoint,       \* keys of checkpoint["model_state"], in dict order;
                    \* the value stored under the n-th key is n (l.225)
  netKeys,          \* keys the load_state_dict of model accepts (l.220)
  netBias,          \* parameter of the opaque forward pass
  pc,               \* statement of run about to execute
  exc,              \* exception that ended run, or "none"
  stages,           \* stages of run completed so far, in order
  means, stds,      \* self.means, self.stds
  all_fields,       \* selected input fields (their names), channel order
  all_fields_numpy, \* input tensor
  lsdCalls,         \* arguments of model.load_state_dict, in call order
  modelState,       \* state dict the network holds
  modelEval,        \* model.eval() was called and the model returned
  input_iter,       \* tensor fed to the next forward pass
  output,           \* local variable output
  i, step,          \* loop variables of the forward loop
  fwdIn, fwdOut,    \* argument / result of every forward pass so far
  outputs,          \* list path: accumulated denormalised outputs
  log,              \* calls made to the host: self.write and stepper
  ai, aj,           \* i, j of the dataset-assembly while loop
  data_vars,        \* dict built by the assembly loop
  asmIters,         \* iterations (= dict assignments) of the while loop
  reads,            \* reads[s][c]: how often out[0, c] of outputs[s] was read
  times,            \* time coordinate
  dataset,          \* saved_xarray
  ncWrites          \* calls of saved_xarray.to_netcdf

inputVars == <<lead_time, isList, hostSeed, t0, netBias>>

loadVars ==
  <<means, stds, all_fields, all_fields_numpy, checkpoint, netKeys, lsdCalls,
    modelState, modelEval>>

loopVars == <<debug, input_iter, output, i, step, fwdIn, fwdOut, outputs, log>>

asmVars == <<ai, aj, data_vars, asmIters, reads, times, dataset, ncWrites>>

vars == <<inputVars, pc, exc, stages, loadVars, loopVars, asmVars>>

None == << >>

\* ---------------------------------------------------------- host inputs
\* value of canonical channel c in snapshot seed
Raw(seed, c) == (3 * c + seed) % 7

\* self.all_fields in the non-list case: the host's field list, each field
\* named "{param}{levelist}", in the host's order, with one field the
\* model does not use
HostFields(seed) ==
  IF seed = 0
    THEN [n \in 1 .. backbone_channels |->
            [name |-> ordering_cml[backbone_channels + 1 - n],
             value |-> Raw(seed, backbone_channels - n)]]
         \o << [name |-> "lsm", value |-> 0] >>
    ELSE << [name |-> "lsm", value |-> 0] >>
         \o [n \in 1 .. backbone_channels |->
               [name |-> ordering_cml[n], value |-> Raw(seed, n - 1)]]

\* self.all_fields[0] in the list case: surface dataset, variable -> value
HostSfc(seed) ==
  [n \in Range(param_sfc_xr) |->
     Raw(seed, CHOOSE c \in 0 .. 7 : At(param_sfc_xr, c) = n)]

\* self.all_fields[1] in the list case: pressure-level dataset,
\* (variable, level) -> value
HostPl(seed) ==
  [pl \in Range(At(param_level_pl, 0)) \X Range(At(param_level_pl, 1)) |->
     Raw(seed,
         8 + 13 * (CHOOSE a \in 0 .. 4 : At(At(param_level_pl, 0), a) = pl[1])
           + (CHOOSE b \in 0 .. 12 :
                At(Reversed(At(param_level_pl, 1)), b) = pl[2]))]

\* contents of global_means.npy / global_stds.npy, FileChannels channels
MeansFile == [c \in 0 .. (FileChannels - 1) |-> 1 + (c % 3)]

StdsFile == [c \in 0 .. (FileChannels - 1) |-> 2 + (c % 2)]

\* sequences of distinct keys, at most n long
KeySeqs(n) ==
  UNION { { s \in [1 .. m -> KeyUniverse] :
              \A a, b \in 1 .. m : a # b => s[a] # s[b] } : m \in 0 .. n }

Init ==
  /\ lead_time \in 0 .. MaxLead
  /\ isList \in BOOLEAN
  /\ debug = FALSE
  /\ hostSeed \in 0 .. 1
  /\ t0 = 100
  /\ checkpoint = None
  /\ netKeys = {}
  /\ netBias = 1
  /\ pc = "start"
  /\ exc = "none"
  /\ stages = << >>
  /\ means = None /\ stds = None
  /\ all_fields = None /\ all_fields_numpy = None
  /\ lsdCalls = << >> /\ modelState = None /\ modelEval = FALSE
  /\ input_iter = None /\ output = None
  /\ i = 0 /\ step = 0
  /\ fwdIn = << >> /\ fwdOut = << >>
  /\ outputs = << >> /\ log = << >>
  /\ ai = 0 /\ aj = 0 /\ data_vars = None /\ asmIters = 0 /\ reads = << >>
  /\ times = << >> /\ dataset = None /\ ncWrites = 0

\* ------------------------------------------------------- pure functions
\* dict[k] = v
DictSet(d, k, v) == [n \in DOMAIN d \cup {k} |-> IF n = k THEN v ELSE d[n]]

\* key sets a network may expect: with or without the "module." prefix
NetKeySets == { {K_module_fc_w}, {Strip(K_module_fc_w)} }

\* checkpoint["model_state"] of the checkpoint whose keys are ck
ModelStateDict(ck) == [k \in Range(ck) |->
                         CHOOSE n \in 1 .. Len(ck) : ck[n] = k]

\* weights (l.227-229): the filtered copy; nothing reads it afterwards
weights(ck) == [k \in Range(ck) \ drop_vars |-> ModelStateDict(ck)[k]]

\* new_state_dict after the first n items of checkpoint["model_state"]
RECURSIVE NewStateDict(_, _)
NewStateDict(ck, n) ==
  IF n = 0 THEN << >>
  ELSE LET k == ck[n]
           name == Strip(k)
           d == NewStateDict(ck, n - 1)
       IN IF name # K_ged THEN DictSet(d, name, ModelStateDict(ck)[k]) ELSE d

\* model.load_state_dict(d) (strict) of a network expecting keys: accepted
\* iff d has exactly these keys, raises RuntimeError otherwise
LoadStateDictOk(keys, d) == DOMAIN d = keys

\* FourCastNetv2.normalise
normalise(data, reverse) ==
  IF reverse
    THEN [c \in DOMAIN data |-> data[c] * stds[c] + means[c]]
    ELSE [c \in DOMAIN data |-> (data[c] - means[c]) \div stds[c]]

\* model(input_iter): the external network, opaque and deterministic
Net(x) == [c \in Chan |->
             (2 * x[(c + 1) % backbone_channels] + c + netBias) % ValMod]

\* all_fields.sel(param_level=ordering_cml): keeps the matching fields
Sel(fs) == SelectSeq(fs, LAMBDA f : f.name \in Range(ordering_cml))

\* all_fields.order_by({"param_level": ordering_cml}): the fields sorted
\* by the position of their name in ordering_cml (names are distinct)
OrderBy(fs) ==
  LET present == { fs[n].name : n \in 1 .. Len(fs) }
      names == SelectSeq(ordering_cml, LAMBDA n : n \in present)
  IN [k \in 1 .. Len(names) |->
        CHOOSE f \in Range(fs) : f.name = names[k]]

\* l.283-289 applied to each host snapshot (index seed + 1)
SelectedCml ==
  << OrderBy(Sel(HostFields(0))) \o << >>,
     OrderBy(Sel(HostFields(1))) \o << >> >>

\* list path, l.268-279: the values of
\* [all_fields_sfc[f] for f in param_sfc_xr] + all_fields_pl_list
SelectedXrOf(seed) ==
  LET sfc == HostSfc(seed)
      pl == HostPl(seed)
      plnames == Slice(ordering_xr, 8)
  IN [n \in 1 .. Len(param_sfc_xr) |-> sfc[param_sfc_xr[n]]]
     \o [n \in 1 .. Len(plnames) |-> pl[SplitName(plnames[n])]]

\* l.268-279 applied to each host snapshot (index seed + 1)
SelectedXr == << SelectedXrOf(0), SelectedXrOf(1) >>

\* ---------------------------------------------------------------- actions
\* l.263, 206-217
LoadStatistics ==
  /\ pc = "start"
  /\ means' = [c \in Chan |-> MeansFile[c]]
  /\ stds' = [c \in Chan |-> StdsFile[c]]
  /\ stages' = Append(stages, "load_statistics")
  /\ pc' = "select"
  /\ UNCHANGED <<inputVars, exc, all_fields, all_fields_numpy, checkpoint,
                 netKeys, lsdCalls, modelState, modelEval, loopVars, asmVars>>

\* l.267-280
SelectList ==
  /\ pc = "select" /\ isList
  /\ all_fields' = param_sfc_xr \o Slice(ordering_xr, 8)
  /\ all_fields_numpy' = Array(SelectedXr[hostSeed + 1])
  /\ stages' = Append(stages, "select")
  /\ pc' = "normalise"
  /\ UNCHANGED <<inputVars, exc, means, stds, checkpoint, netKeys, lsdCalls,
                 modelState, modelEval, loopVars, asmVars>>

\* l.282-291
SelectCml ==
  /\ pc = "select" /\ ~isList
  /\ LET selected == SelectedCml[hostSeed + 1]
     IN /\ all_fields' = [n \in 1 .. Len(selected) |-> selected[n].name]
        /\ all_fields_numpy' =
             Array([n \in 1 .. Len(selected) |-> selected[n].value])
  /\ stages' = Append(stages, "select")
  /\ pc' = "normalise"
  /\ UNCHANGED <<inputVars, exc, means, stds, checkpoint, netKeys, lsdCalls,
                 modelState, modelEval, loopVars, asmVars>>

\* NormaliseInput with the normalisation forgotten
NormaliseInput_skipped ==
  /\ pc = "normalise"
  /\ pc' = "load_try"
  /\ UNCHANGED <<inputVars, exc, stages, loadVars, loopVars, asmVars>>

\* l.293
NormaliseInput ==
  /\ pc = "normalise"
  /\ all_fields_numpy' = normalise(all_fields_numpy, FALSE)
  /\ stages' = Append(stages, "normalise")
  /\ pc' = "load_try"
  /\ UNCHANGED <<inputVars, exc, means, stds, all_fields, checkpoint,
                 netKeys, lsdCalls, modelState, modelEval, loopVars, asmVars>>

\* l.295, 219-244: load_model up to and including the first
\* load_state_dict; the network is constructed and the checkpoint file read
LoadModelTry ==
  /\ pc = "load_try"
  /\ \E keys \in NetKeySets, ck \in KeySeqs(MaxKeys) :
       LET new_state_dict == NewStateDict(ck, Len(ck))
       IN /\ netKeys' = keys
          /\ checkpoint' = ck
          /\ lsdCalls' = Append(lsdCalls, new_state_dict)
          /\ IF LoadStateDictOk(keys, new_state_dict)
               THEN modelState' = new_state_dict /\ pc' = "load_eval"
               ELSE modelState' = modelState /\ pc' = "load_fallback"
  /\ UNCHANGED <<inputVars, exc, stages, means, stds, all_fields,
                 all_fields_numpy, modelEval, loopVars, asmVars>>

\* LoadModelFallback with the second exception swallowed
LoadModelFallback_swallowed ==
  /\ pc = "load_fallback"
  /\ lsdCalls' = Append(lsdCalls, ModelStateDict(checkpoint))
  /\ modelState' = IF LoadStateDictOk(netKeys, ModelStateDict(checkpoint))
                     THEN ModelStateDict(checkpoint) ELSE modelState
  /\ pc' = "load_eval"
  /\ UNCHANGED <<inputVars, exc, stages, means, stds, all_fields,
                 all_fields_numpy, checkpoint, netKeys, modelEval, loopVars,
                 asmVars>>

\* l.245-246: the except branch; its exception is not caught
LoadModelFallback ==
  /\ pc = "load_fallback"
  /\ lsdCalls' = Append(lsdCalls, ModelStateDict(checkpoint))
  /\ IF LoadStateDictOk(netKeys, ModelStateDict(checkpoint))
       THEN /\ modelState' = ModelStateDict(checkpoint)
            /\ pc' = "load_eval" /\ exc' = exc
       ELSE /\ modelState' = modelState
            /\ pc' = "raised" /\ exc' = "RuntimeError"
  /\ UNCHANGED <<inputVars, stages, means, stds, all_fields,
                 all_fields_numpy, checkpoint, netKeys, modelEval, loopVars,
                 asmVars>>

\* l.249-252: model.eval(); model.to(device); return model
LoadModelEval ==
  /\ pc = "load_eval"
  /\ modelEval' = TRUE
  /\ stages' = Append(stages, "load_model")
  /\ pc' = "enter"
  /\ UNCHANGED <<inputVars, exc, means, stds, all_fields, all_fields_numpy,
                 checkpoint, netKeys, lsdCalls, modelState, loopVars, asmVars>>

\* l.298-309: input tensor, stepper context, outputs = [], data_vars = {}
EnterLoop ==
  /\ pc = "enter"
  /\ input_iter' = all_fields_numpy
  /\ outputs' = << >>
  /\ data_vars' = << >>
  /\ stages' = Append(stages, "loop")
  /\ pc' = "loop"
  /\ UNCHANGED <<inputVars, exc, loadVars, debug, output, i, step, fwdIn,
                 fwdOut, log, ai, aj, asmIters, reads, times, dataset,
                 ncWrites>>

\* l.310-314: output = model(input_iter); input_iter = output; in the
\* first iteration the logger's level is observed
ForwardPass ==
  /\ pc = "loop"
  /\ i < lead_time \div hour_steps
  /\ output' = Net(input_iter)
  /\ input_iter' = output'
  /\ fwdIn' = Append(fwdIn, input_iter)
  /\ fwdOut' = Append(fwdOut, output')
  /\ \E enabled \in BOOLEAN :
       /\ debug' = IF i = 0 THEN enabled ELSE debug
       /\ pc' = IF i = 0 /\ enabled THEN "debug" ELSE "denorm"
  /\ UNCHANGED <<inputVars, exc, stages, loadVars, i, step, outputs, log,
                 asmVars>>

\* l.314-325: the first debug block reads self.ordering
DebugNormalised ==
  /\ pc = "debug"
  /\ IF "ordering" \in ClassAttrs
       THEN pc' = "denorm" /\ exc' = exc
       ELSE pc' = "raised" /\ exc' = "AttributeError"
  /\ UNCHANGED <<inputVars, stages, loadVars, loopVars, asmVars>>

\* Denormalise with the denormalised array fed back into the network
Denormalise_feedback ==
  /\ pc = "denorm"
  /\ step' = (i + 1) * hour_steps
  /\ output' = normalise(output, TRUE)
  /\ input_iter' = output'
  /\ pc' = "emit"
  /\ UNCHANGED <<inputVars, exc, stages, loadVars, debug, i, fwdIn, fwdOut,
                 outputs, log, asmVars>>

\* l.328-342: step, reverse normalisation of a copy, second debug block
\* (reads self.ordering_cml)
Denormalise ==
  /\ pc = "denorm"
  /\ step' = (i + 1) * hour_steps
  /\ output' = normalise(output, TRUE)
  /\ IF i = 0 /\ debug /\ "ordering_cml" \notin ClassAttrs
       THEN pc' = "raised" /\ exc' = "AttributeError"
       ELSE pc' = "emit" /\ exc' = exc
  /\ UNCHANGED <<inputVars, stages, loadVars, debug, input_iter, i, fwdIn,
                 fwdOut, outputs, log, asmVars>>

\* Emit with one sample field as the template of every write
Emit_sampleTemplate ==
  /\ pc = "emit"
  /\ IF ~isList
       THEN /\ log' = Append(log,
                 [ev |-> "write", i |-> i, step |-> step,
                  writes |-> [n \in 1 .. Len(all_fields) |->
                                [k |-> n - 1, template |-> all_fields[1],
                                 data |-> output[n - 1]]]])
            /\ outputs' = outputs
       ELSE /\ outputs' = Append(outputs, [step |-> step, data |-> output])
            /\ log' = log
  /\ pc' = "stepper"
  /\ UNCHANGED <<inputVars, exc, stages, loadVars, debug, input_iter, output,
                 i, step, fwdIn, fwdOut, asmVars>>

\* l.343-349: one self.write per selected field, or outputs.append
Emit ==
  /\ pc = "emit"
  /\ IF ~isList
       THEN /\ log' = Append(log,
                 [ev |-> "write", i |-> i, step |-> step,
                  writes |-> [n \in 1 .. Len(all_fields) |->
                                [k |-> n - 1, template |-> all_fields[n],
                                 data |-> output[n - 1]]]])
            /\ outputs' = outputs
       ELSE /\ outputs' = Append(outputs, [step |-> step, data |-> output])
            /\ log' = log
  /\ pc' = "stepper"
  /\ UNCHANGED <<inputVars, exc, stages, loadVars, debug, input_iter, output,
                 i, step, fwdIn, fwdOut, asmVars>>

\* l.351: stepper(i, step), then the for loop advances
StepperCall ==
  /\ pc = "stepper"
  /\ log' = Append(log, [ev |-> "stepper", i |-> i, step |-> step,
                         writes |-> << >>])
  /\ i' = i + 1
  /\ pc' = "loop"
  /\ UNCHANGED <<inputVars, exc, stages, loadVars, debug, input_iter, output,
                 step, fwdIn, fwdOut, outputs, asmVars>>

\* l.310, 353-355: range exhausted; the list path starts the assembly
LoopExit ==
  /\ pc = "loop"
  /\ i >= lead_time \div hour_steps
  /\ IF isList
       THEN /\ pc' = "assemble"
            /\ ai' = 0 /\ aj' = 0
            /\ reads' = [s \in 1 .. Len(outputs) |-> [c \in Chan |-> 0]]
       ELSE /\ pc' = "done"
            /\ UNCHANGED <<ai, aj, reads>>
  /\ UNCHANGED <<inputVars, exc, stages, loadVars, loopVars, data_vars,
                 asmIters, times, dataset, ncWrites>>

\* l.356-362: while i < len(ordering_xr), branch i < 8
AssembleSfc ==
  /\ pc = "assemble"
  /\ ai < Len(ordering_xr) /\ ai < 8
  /\ data_vars' = DictSet(data_vars, At(ordering_xr, ai),
                    [dims |-> <<"time", "lat", "lon">>,
                     src |-> <<ai>>,
                     values |-> [s \in 1 .. Len(outputs) |->
                                   <<outputs[s].data[ai]>>]])
  /\ reads' = [s \in DOMAIN reads |->
                 [reads[s] EXCEPT ![ai] = reads[s][ai] + 1]]
  /\ ai' = ai + 1
  /\ asmIters' = asmIters + 1
  /\ UNCHANGED <<inputVars, pc, exc, stages, loadVars, loopVars, aj, times,
                 dataset, ncWrites>>

\* AssemblePl advancing i by 12 instead of 13
AssemblePl_step12 ==
  /\ pc = "assemble"
  /\ ai < Len(ordering_xr) /\ ai >= 8
  /\ IF \/ Len(outputs) > 0 /\ ai + 12 >= backbone_channels
        \/ aj >= Len(At(param_level_pl, 0))
       THEN /\ pc' = "raised" /\ exc' = "IndexError"
            /\ UNCHANGED <<ai, aj, data_vars, asmIters, reads>>
       ELSE /\ data_vars' = DictSet(data_vars, At(At(param_level_pl, 0), aj),
                    [dims |-> <<"time", "level", "lat", "lon">>,
                     src |-> [k \in 1 .. 13 |-> ai + k - 1],
                     values |-> [s \in 1 .. Len(outputs) |->
                                   [k \in 1 .. 13 |->
                                      outputs[s].data[ai + k - 1]]]])
            /\ reads' = [s \in DOMAIN reads |->
                           [c \in Chan |->
                              IF c >= ai /\ c < ai + 13
                                THEN reads[s][c] + 1 ELSE reads[s][c]]]
            /\ ai' = ai + 12
            /\ aj' = aj + 1
            /\ asmIters' = asmIters + 1
            /\ UNCHANGED <<pc, exc>>
  /\ UNCHANGED <<inputVars, stages, loadVars, loopVars, times, dataset,
                 ncWrites>>

\* l.363-374: branch i >= 8; out[0, i + k] and param_level_pl[0][j] raise
\* IndexError when out of range
AssemblePl ==
  /\ pc = "assemble"
  /\ ai < Len(ordering_xr) /\ ai >= 8
  /\ IF \/ Len(outputs) > 0 /\ ai + 12 >= backbone_channels
        \/ aj >= Len(At(param_level_pl, 0))
       THEN /\ pc' = "raised" /\ exc' = "IndexError"
            /\ UNCHANGED <<ai, aj, data_vars, asmIters, reads>>
       ELSE /\ data_vars' = DictSet(data_vars, At(At(param_level_pl, 0), aj),
                    [dims |-> <<"time", "level", "lat", "lon">>,
                     src |-> [k \in 1 .. 13 |-> ai + k - 1],
                     values |-> [s \in 1 .. Len(outputs) |->
                                   [k \in 1 .. 13 |->
                                      outputs[s].data[ai + k - 1]]]])
            /\ reads' = [s \in DOMAIN reads |->
                           [c \in Chan |->
                              IF c >= ai /\ c < ai + 13
                                THEN reads[s][c] + 1 ELSE reads[s][c]]]
            /\ ai' = ai + 13
            /\ aj' = aj + 1
            /\ asmIters' = asmIters + 1
            /\ UNCHANGED <<pc, exc>>
  /\ UNCHANGED <<inputVars, stages, loadVars, loopVars, times, dataset,
                 ncWrites>>

\* l.356 false, l.376-379: steps, times, lat, lon
ComputeTimes ==
  /\ pc = "assemble"
  /\ ai >= Len(ordering_xr)
  /\ LET steps == Arange(6, lead_time + 6, 6)
     IN times' = [n \in 1 .. Len(steps) |-> t0 + steps[n]]
  /\ pc' = "dataset"
  /\ UNCHANGED <<inputVars, exc, stages, loadVars, loopVars, ai, aj,
                 data_vars, asmIters, reads, dataset, ncWrites>>

\* xr.Dataset accepts the variables iff every array has as many axes as
\* dims and its time / level axes are as long as the coordinates
DatasetOk(dv, tcoord, lcoord) ==
  /\ Len(outputs) > 0
  /\ \A n \in DOMAIN dv :
       /\ Len(dv[n].values) = Len(tcoord)
       /\ Len(dv[n].dims) = 4 => Len(dv[n].src) = Len(lcoord)

\* l.380-389: xr.Dataset(data_vars, coords), rename
BuildDataset ==
  /\ pc = "dataset"
  /\ LET level == Reversed(At(param_level_pl, 1))
     IN IF DatasetOk(data_vars, times, level)
          THEN /\ dataset' = [data_vars |-> data_vars, time |-> times,
                              level |-> level]
               /\ pc' = "save" /\ exc' = exc
          ELSE /\ dataset' = dataset
               /\ pc' = "raised" /\ exc' = "ValueError"
  /\ UNCHANGED <<inputVars, stages, loadVars, loopVars, ai, aj, data_vars,
                 asmIters, reads, times, ncWrites>>

\* l.390-409: file name, encoding, saved_xarray.to_netcdf
SaveNetCDF ==
  /\ pc = "save"
  /\ ncWrites' = ncWrites + 1
  /\ pc' = "done"
  /\ UNCHANGED <<inputVars, exc, stages, loadVars, loopVars, ai, aj,
                 data_vars, asmIters, reads, times, dataset>>

Next ==
  \/ LoadStatistics
  \/ SelectList
  \/ SelectCml
  \/ NormaliseInput
  \/ LoadModelTry
  \/ LoadModelFallback
  \/ LoadModelEval
  \/ EnterLoop
  \/ ForwardPass
  \/ DebugNormalised
  \/ Denormalise
  \/ Emit
  \/ StepperCall
  \/ LoopExit
  \/ AssembleSfc
  \/ AssemblePl
  \/ ComputeTimes
  \/ BuildDataset
  \/ SaveNetCDF

Spec == Init /\ [][Next]_vars

\* ------------------------------------------------------------- properties
\* run has returned or raised
Ended == pc \in {"done", "raised"}

\* number of iterations of range(lead_time // hour_steps)
Passes == lead_time \div hour_steps

WriteEvents == SelectSeq(log, LAMBDA e : e.ev = "write")

StepperEvents == SelectSeq(log, LAMBDA e : e.ev = "stepper")

\* steps of the outputs emitted so far (written or accumulated), in order
EmittedSteps ==
  IF isList THEN [n \in 1 .. Len(outputs) |-> outputs[n].step]
            ELSE [n \in 1 .. Len(WriteEvents) |-> WriteEvents[n].step]

\* the arrays emitted so far, in order
EmittedData ==
  IF isList
    THEN [n \in 1 .. Len(outputs) |-> outputs[n].data]
    ELSE [n \in 1 .. Len(WriteEvents) |->
            [c \in Chan |-> WriteEvents[n].writes[c + 1].data]]

IsPrefix(s, t) == Len(s) <= Len(t) /\ \A n \in 1 .. Len(s) : s[n] = t[n]

\* C1: once the model is loaded, a call of run makes exactly
\* lead_time // hour_steps forward passes; iteration i emits its output
\* labelled (i + 1) * hour_steps and then calls stepper(i, step) once, so
\* the emitted steps are 6, 12, ... in order, none skipped or repeated.
C1_ExactlyLeadTimeOverHourStepsPasses ==
  (Ended /\ modelEval) =>
    /\ Len(fwdIn) = Passes
    /\ EmittedSteps = [n \in 1 .. Passes |-> n * hour_steps]
    /\ StepperEvents = [n \in 1 .. Passes |->
                          [ev |-> "stepper", i |-> n - 1,
                           step |-> n * hour_steps, writes |-> << >>]]

\* C2 as stated: load_model completes before the input is reordered and
\* normalised, i.e. the stages complete in the order (a), (b), (c), (d), (e).
C2_LoadModelBeforeReorder ==
  IsPrefix(stages,
           <<"load_statistics", "load_model", "select", "normalise", "loop">>)

\* C2 amended: the stages complete in the order statistics, reorder/select,
\* normalise, load_model, loop; the input is normalised before load_model
\* starts and no forward pass runs before load_model has returned.
C2_StageOrder ==
  /\ IsPrefix(stages,
              <<"load_statistics", "select", "normalise", "load_model", "loop">>)
  /\ Len(lsdCalls) > 0 => Len(stages) >= 3
  /\ Len(fwdIn) > 0 => Len(stages) = 5 /\ modelEval

C2_Witness == Len(stages) = 5 /\ Len(fwdIn) >= 1 /\ Len(lsdCalls) = 2

\* C3: a run uses exactly one output path.  Not a list: every step's
\* output is written through self.write in its own iteration, before that
\* iteration's stepper call, and no NetCDF file is written.  A list:
\* self.write is never called, outputs are accumulated, and the NetCDF file
\* is written exactly once, after the last forward pass.
C3_ExactlyOneOutputPath ==
  /\ ~isList =>
       /\ ncWrites = 0 /\ outputs = << >>
       /\ \A n \in 1 .. Len(log) :
            log[n].ev = "stepper" =>
              /\ n > 1 /\ log[n - 1].ev = "write"
              /\ log[n - 1].step = log[n].step
       /\ (Ended /\ modelEval) => Len(WriteEvents) = Passes
  /\ isList =>
       /\ WriteEvents = << >>
       /\ ncWrites <= 1
       /\ ncWrites = 1 => Len(fwdIn) = Passes /\ Len(outputs) = Passes
       /\ (Ended /\ modelEval) => ncWrites = 1

\* C4: the first forward pass gets the normalised initial fields, every
\* later pass gets exactly the raw output of the previous pass, and the
\* reverse normalisation data * stds + means is applied only to the copy
\* that is emitted.
C4_AutoregressiveOnNormalised ==
  /\ Len(fwdIn) = Len(fwdOut)
  /\ Len(fwdIn) >= 1 =>
       \A c \in Chan :
         fwdIn[1][c] = (Raw(hostSeed, c) - MeansFile[c]) \div StdsFile[c]
  /\ \A n \in 2 .. Len(fwdIn) : fwdIn[n] = fwdOut[n - 1]
  /\ (Len(fwdOut) >= 1 /\ pc \in {"loop", "debug", "denorm", "emit", "stepper"})
       => input_iter = fwdOut[Len(fwdOut)]
  /\ Len(EmittedData) <= Len(fwdOut)
  /\ \A n \in 1 .. Len(EmittedData) :
       \A c \in Chan :
         EmittedData[n][c] = fwdOut[n][c] * StdsFile[c] + MeansFile[c]

C4_Witness ==
  /\ Len(fwdIn) = 2 /\ Len(EmittedData) = 2
  /\ EmittedData[1] # fwdOut[1]
  /\ fwdIn[2] = fwdOut[1]

\* C5: in the list path the time coordinate has as many entries as there
\* are accumulated outputs, and its k-th entry is the initial time plus the
\* step at which the k-th output was produced.
C5_TimeCoordinateMatchesOutputs ==
  pc = "dataset" =>
    /\ Len(times) = Len(outputs)
    /\ \A n \in 1 .. Len(times) : times[n] = t0 + outputs[n].step

CfName(n) ==
  CASE n = "10u" -> "u10" [] n = "10v" -> "v10" [] n = "100u" -> "u100"
    [] n = "100v" -> "v100" [] n = "2t" -> "t2m" [] OTHER -> n

LevelsAscending ==
  <<50, 100, 150, 200, 250, 300, 400, 500, 600, 700, 850, 925, 1000>>

\* C7: ordering_cml and ordering_xr both have 73 = backbone_channels
\* entries and name the same variable at every index (the 8 surface
\* variables in the order of param_sfc_xr, then u, v, z, t, r at levels
\* 50..1000 ascending); in the non-list path every step writes channel k
\* exactly once with the k-th selected input field, ordering_cml[k], as
\* template; in the list path channel 8 + 13 j + k is stored in variable
\* param_level_pl[0][j] at level entry k, whose value is the level in the
\* channel's name.
C7_ChannelOrdering ==
  /\ Len(ordering_cml) = 73 /\ Len(ordering_xr) = 73 /\ backbone_channels = 73
  /\ \A c \in 0 .. 7 :
       /\ At(ordering_xr, c) = At(param_sfc_xr, c)
       /\ CfName(At(ordering_cml, c)) = At(ordering_xr, c)
  /\ \A j \in 0 .. 4 : \A k \in 0 .. 12 :
       /\ At(ordering_xr, 8 + 13 * j + k) =
            At(<<"u", "v", "z", "t", "r">>, j) \o ToString(At(LevelsAscending, k))
       /\ At(ordering_cml, 8 + 13 * j + k) = At(ordering_xr, 8 + 13 * j + k)
  /\ \A n \in 1 .. Len(log) :
       log[n].ev = "write" =>
         /\ Len(log[n].writes) = 73
         /\ \A m \in 1 .. 73 :
              /\ log[n].writes[m].k = m - 1
              /\ log[n].writes[m].template = At(ordering_cml, m - 1)
  /\ dataset # None =>
       \A j \in 0 .. 4 : \A k \in 0 .. 12 :
         LET var == dataset.data_vars[At(At(param_level_pl, 0), j)]
         IN /\ At(var.src, k) = 8 + 13 * j + k
            /\ At(ordering_xr, 8 + 13 * j + k) =
                 At(At(param_level_pl, 0), j) \o ToString(At(dataset.level, k))
            /\ \A s \in 1 .. Len(outputs) :
                 At(var.values[s], k) = outputs[s].data[8 + 13 * j + k]

C7_Witness ==
  /\ pc = "done" /\ isList /\ dataset # None
  /\ Len(outputs) = 2 /\ ncWrites = 1

\* C8: the assembly loop ends after 13 iterations with i = 73 and j = 5;
\* for every accumulated output each channel 0..72 is read exactly once,
\* no index is out of range, and 13 distinct variables are produced.
C8_AssemblyLoop ==
  /\ exc # "IndexError"
  /\ ai <= 73 /\ aj <= 5 /\ asmIters <= 13
  /\ asmIters = Cardinality(DOMAIN data_vars)
  /\ \A s \in DOMAIN reads : \A c \in Chan :
       reads[s][c] = IF c < ai THEN 1 ELSE 0
  /\ (isList /\ pc \in {"dataset", "save", "done"}) =>
       /\ ai = 73 /\ ai = Len(ordering_xr) /\ aj = 5
       /\ asmIters = 13
       /\ Cardinality(DOMAIN data_vars) = 13
       /\ DOMAIN reads = 1 .. Len(outputs)

C8_Witness ==
  /\ pc = "dataset" /\ Len(outputs) = 2
  /\ ai = 73 /\ aj = 5 /\ reads[2][72] = 1

\* C9: with DEBUG enabled run completes as it does with DEBUG disabled:
\* the debug blocks raise nothing and the same steps are emitted.
C9_DebugObservationOnly ==
  debug =>
    /\ exc # "AttributeError"
    /\ (Ended /\ modelEval) =>
         EmittedSteps = [n \in 1 .. Passes |-> n * hour_steps]

\* C10: no argument of load_state_dict has an entry under a key of
\* drop_vars or under such a key without its first 7 characters.
C10_DropVarsNeverLoaded ==
  \A n \in 1 .. Len(lsdCalls) :
    DOMAIN lsdCalls[n] \cap
      (drop_vars \cup {K_norm_weight, K_norm_bias}) = {}

====
